---------------------------- MODULE Spec2Model ----------------------------
(***************************************************************************)
(* The filter -> aggregate -> table pipeline of the hazard news dashboard  *)
(* (src/app.py): the data frame df loaded at import time and the Dash      *)
(* callback update_dashboard that recomputes the five outputs of the page. *)
(*                                                                         *)
(* Encoding of values.                                                     *)
(*   - a data frame is a sequence of rows (records); the field `index` is  *)
(*     the pandas index label of the row (its position in the CSV file);   *)
(*   - a timestamp is a number of ticks, TicksPerDay ticks to a day, so    *)
(*     day d at time of day t is d * TicksPerDay + t; NaT is -1;           *)
(*   - a calendar date (datetime.date, or the string YYYY-MM-DD) is the    *)
(*     day number: ISO date strings order as the day numbers do;           *)
(*   - a county is its rank in the alphabetical order of the county names  *)
(*     (groupby sorts its keys), the other strings are strings; NaN of a   *)
(*     string column is "nan" and NaN of the county column is 0;           *)
(*   - a dropdown value is a set; {} stands for both None and [], which    *)
(*     Python's truth test treats alike; an absent date (None) is 0;       *)
(*   - a name of the callback is bound to a frame object: the object of    *)
(*     the global name df, or an object the call has created (a copy, the  *)
(*     result of an indexing or of a sort); a column assignment writes     *)
(*     into the object its name is bound to.                               *)
(***************************************************************************)
EXTENDS Integers, Sequences, FiniteSets

\* ------------------------------------------------------------ bounds
\* longest CSV file
MaxRows == 2
\* days the date picker can select: 1..NumDays
NumDays == 2
\* resolution of the time of day
TicksPerDay == 2

\* head(10) of the county ranking
TopN == 10

NaN == "nan"
NaNCounty == 0
NaT == -1
NoDate == 0

Days == 1..NumDays

Ts(day, tick) == day * TicksPerDay + tick

\* ------------------------------------------------------------ sequences
RECURSIVE SeqsUpTo(_, _)
SeqsUpTo(S, n) ==
    IF n = 0 THEN {<<>>}
    ELSE LET shorter == SeqsUpTo(S, n - 1)
         IN  shorter \cup {Append(s, x) : s \in {t \in shorter : Len(t) = n - 1}, x \in S}

Reverse(s) == [i \in 1..Len(s) |-> s[Len(s) + 1 - i]]

MinOf(S) == CHOOSE x \in S : \A y \in S : x <= y
MaxOf(S) == CHOOSE x \in S : \A y \in S : x >= y

\* the integers from lo to hi, and the elements of a finite set of integers,
\* in ascending order
Range(lo, hi) == [i \in 1..(hi - lo + 1) |-> lo + i - 1]

Ascending(S) ==
    IF S = {} THEN <<>> ELSE SelectSeq(Range(MinOf(S), MaxOf(S)), LAMBDA x : x \in S)

\* ------------------------------------------------------------ the CSV file
\* rows of the CSV file the general family is drawn from
CsvRow(d, t, cat, county, media, title, url) ==
    [publish_date |-> IF d = 0 THEN NaT ELSE Ts(d, t), category |-> cat,
     counties |-> county, media |-> media, title |-> title, url |-> url]

CsvPool ==
    { CsvRow(1, 0, "fire", 2, "bbc", "a", "u1"),
      CsvRow(1, 1, "flood", 1, "bbc", "b", "u2"),
      CsvRow(2, 1, "fire", 1, "sky", NaN, NaN),
      CsvRow(2, 0, NaN, 1, "sky", "d", "u4") }

GeneralFiles == SeqsUpTo(CsvPool, MaxRows)

\* ------------------------------------------------------------ loading
DateOnly(ts) == IF ts = NaT THEN NaT ELSE ts \div TicksPerDay

\* pd.read_csv: the rows get the index labels 0, 1, ...
read_csv(csv) ==
    [i \in 1..Len(csv) |->
        [index |-> i - 1, publish_date |-> csv[i].publish_date,
         category |-> csv[i].category, counties |-> csv[i].counties,
         media |-> csv[i].media, title |-> csv[i].title, url |-> csv[i].url]]

IsComplete(r) ==
    /\ r.publish_date # NaT
    /\ r.category # NaN
    /\ r.counties # NaNCounty
    /\ r.media # NaN

\* df.dropna(subset=[publish_date, category, counties, media], inplace=True)
dropna_keepall(frame) == frame

dropna(frame) == SelectSeq(frame, IsComplete)

\* df["publish_date_only"] = df["publish_date"].dt.date
WithDateOnly(frame) ==
    [i \in 1..Len(frame) |->
        [index |-> frame[i].index, publish_date |-> frame[i].publish_date,
         publish_date_only |-> DateOnly(frame[i].publish_date),
         category |-> frame[i].category, counties |-> frame[i].counties,
         media |-> frame[i].media, title |-> frame[i].title, url |-> frame[i].url]]

LoadData(csv) == WithDateOnly(dropna(read_csv(csv)))


\* ------------------------------------------------------------ sorting
\* numpy argsort(kind="quicksort"): the positions of a in ascending order of
\* value.  Quicksort is not stable: it may leave equal keys in any order.
\* Which order is a property of the build (numpy version, CPU dispatch,
\* dtype) and of the array, the same on every call for the same array.
HasTies(a) == \E i \in 1..Len(a) : \E j \in (i + 1)..Len(a) : a[i] = a[j]

\* every order the sort may leave a in: the permutations of the positions
\* along which the keys do not decrease
RECURSIVE SortedOrdersOf(_, _)
SortedOrdersOf(a, rest) ==
    IF rest = {} THEN {<<>>}
    ELSE LET least == {i \in rest : \A j \in rest : a[i] <= a[j]}
         IN  UNION {{<<i>> \o o : o \in SortedOrdersOf(a, rest \ {i})} : i \in least}

SortedOrders(a) == SortedOrdersOf(a, 1..Len(a))

\* the sorted order that keeps equal keys in input order (the only sorted
\* order of an array without equal keys): the positions in ascending order of
\* (key, position)
StableCodes(a, lo) == {(a[i] - lo) * (Len(a) + 1) + i : i \in 1..Len(a)}

PositionsOf(codes, n) == [k \in 1..n |-> codes[k] % (n + 1)]

StableOrder(a) ==
    IF a = <<>> THEN <<>>
    ELSE PositionsOf(Ascending(StableCodes(a, MinOf({a[i] : i \in 1..Len(a)}))), Len(a))

\* `ties` records the arrays with equal keys the build has sorted, each with
\* the order it was left in (see Resolve)
Sorted(ties, a) == \E e \in ties : e.keys = a

argsort(a, ties) ==
    IF Sorted(ties, a) THEN (CHOOSE e \in ties : e.keys = a).order ELSE StableOrder(a)

\* the sort meets the array a: the order of an array it has sorted before is
\* fixed, an array without equal keys leaves no choice, and a new array with
\* equal keys comes out in any of its sorted orders
Resolve(ties, a) ==
    IF Sorted(ties, a) \/ ~HasTies(a) THEN {ties}
    ELSE {ties \cup {[keys |-> a, order |-> o]} : o \in SortedOrders(a)}

\* pandas nargsort(items, kind="quicksort", ascending, na_position="last"):
\* for a descending sort the non-null items are reversed, argsorted, and the
\* indexer reversed again; the null positions come last
\* the keys nargsort hands to argsort
QuicksortKeys(items, null, ascending) ==
    LET pos == Ascending({i \in 1..Len(items) : items[i] # null})
        idx == IF ascending THEN pos ELSE Reverse(pos)
    IN  [k \in 1..Len(idx) |-> items[idx[k]]]

nargsort(items, null, ascending, ties) ==
    LET pos == Ascending({i \in 1..Len(items) : items[i] # null})
        nan_idx == Ascending({i \in 1..Len(items) : items[i] = null})
        idx == IF ascending THEN pos ELSE Reverse(pos)
        vals == QuicksortKeys(items, null, ascending)
        picked == argsort(vals, ties)
        indexer == [k \in 1..Len(idx) |-> idx[picked[k]]]
    IN  (IF ascending THEN indexer ELSE Reverse(indexer)) \o nan_idx

\* frame.iloc[indexer]: the rows of the frame in the order of the indexer
Take(frame, indexer) == [k \in 1..Len(indexer) |-> frame[indexer[k]]]

\* frame.head(n)
head(frame, n) == SubSeq(frame, 1, IF Len(frame) < n THEN Len(frame) ELSE n)

\* ------------------------------------------------------------ the filter
\* Python's truth test of a dropdown value (None, [] are false) and of a
\* date string (None is false)
TruthySelection(sel) == sel # {}
TruthyDate(d) == d # NoDate

\* pd.to_datetime("YYYY-MM-DD"): midnight of that day
to_datetime(d) == Ts(d, 0)

\* comparisons of a timestamp column with a timestamp: NaT compares false
GeTs(ts, bound) == ts # NaT /\ ts >= bound
LeTs(ts, bound) == ts # NaT /\ ts <= bound

\* filtered_df[filtered_df[col].isin(values)]
FilterCategory(frame, sel) == SelectSeq(frame, LAMBDA r : r.category \in sel)
FilterCounty(frame, sel) == SelectSeq(frame, LAMBDA r : r.counties \in sel)

FilterDates(frame, start_date, end_date) ==
    SelectSeq(frame, LAMBDA r : /\ GeTs(r.publish_date, to_datetime(start_date))
                                /\ LeTs(r.publish_date, to_datetime(end_date)))

\* lines 129-139: the three guarded filters, one after the other
ApplyFilters_any(frame, c) ==
    SelectSeq(frame, LAMBDA r :
        \/ r.category \in c.selected_categories
        \/ r.counties \in c.selected_counties
        \/ /\ GeTs(r.publish_date, to_datetime(c.start_date))
           /\ LeTs(r.publish_date, to_datetime(c.end_date)))

ApplyFilters(frame, c) ==
    LET f1 == IF TruthySelection(c.selected_categories)
              THEN FilterCategory(frame, c.selected_categories) ELSE frame
        f2 == IF TruthySelection(c.selected_counties)
              THEN FilterCounty(f1, c.selected_counties) ELSE f1
        f3 == IF TruthyDate(c.start_date) /\ TruthyDate(c.end_date)
              THEN FilterDates(f2, c.start_date, c.end_date) ELSE f2
    IN  f3


\* ------------------------------------------------------------ aggregators
\* filtered_df["media"].nunique(): NaN is not counted
nunique(values) == Cardinality(values \ {NaN})

\* f"Number of unique news medias: {media_count}"
MediaText(frame) ==
    <<"Number of unique news medias: ", nunique({frame[i].media : i \in 1..Len(frame)})>>

\* filtered_df["category"].value_counts().reset_index(): one row per non-null
\* category with its number of rows (the row order is not modelled)
CategoryCounts(frame) ==
    { [category |-> cat,
       count |-> Cardinality({i \in 1..Len(frame) : frame[i].category = cat})] :
      cat \in {frame[i].category : i \in 1..Len(frame)} \ {NaN} }

\* filtered_df.groupby("counties")["media"].nunique().reset_index(...): the
\* groups in ascending key order, null keys dropped
CountyMediaCounts(frame) ==
    LET keys == Ascending({frame[i].counties : i \in 1..Len(frame)} \ {NaNCounty})
    IN  [k \in 1..Len(keys) |->
            [counties |-> keys[k],
             unique_medias |->
                nunique({frame[i].media : i \in {j \in 1..Len(frame) :
                                                    frame[j].counties = keys[k]}})]]

\* .sort_values("unique_medias", ascending=False).head(10)
TopCounties(counts, ties) ==
    head(Take(counts,
              nargsort([k \in 1..Len(counts) |-> counts[k].unique_medias], NaT, FALSE, ties)),
         TopN)

PieData(frame, ties) == TopCounties(CountyMediaCounts(frame), ties)

\* the keys the sort of line 159 meets on a filtered frame
CountyKeys(frame) ==
    LET counts == CountyMediaCounts(frame)
    IN  QuicksortKeys([k \in 1..Len(counts) |-> counts[k].unique_medias], NaT, FALSE)

\* filtered_df.groupby(["publish_date_only", "counties"]).size().reset_index(...):
\* the groups in ascending (date, county) order, null keys dropped
RECURSIVE LineRows(_, _)
LineRows(frame, dates) ==
    IF dates = <<>> THEN <<>>
    ELSE LET d == Head(dates)
             keys == Ascending({frame[i].counties : i \in {j \in 1..Len(frame) :
                                    frame[j].publish_date_only = d}} \ {NaNCounty})
         IN  [k \in 1..Len(keys) |->
                 [publish_date_only |-> d, counties |-> keys[k],
                  article_count |->
                     Cardinality({i \in 1..Len(frame) :
                                     /\ frame[i].publish_date_only = d
                                     /\ frame[i].counties = keys[k]})]]
             \o LineRows(frame, Tail(dates))

LineData(frame) ==
    LineRows(frame, Ascending({frame[i].publish_date_only : i \in 1..Len(frame)} \ {NaT}))

\* ------------------------------------------------------------ the table
\* filtered_df.sort_values("publish_date", ascending=False)
SortByDate(frame, ties) ==
    Take(frame, nargsort([i \in 1..Len(frame) |-> frame[i].publish_date], NaT, FALSE, ties))

\* the keys the sort of line 181 meets on a filtered frame
DateKeys(frame) ==
    QuicksortKeys([i \in 1..Len(frame) |-> frame[i].publish_date], NaT, FALSE)

\* .dt.strftime("%Y-%m-%d"): the date part of the timestamp, as a string
strftime(ts) == DateOnly(ts)

\* f"[{row['title']}]({row['url']})"
TitleLink(row) == <<"[", row.title, "](", row.url, ")">>

\* filtered_df.apply(lambda row: ..., axis=1).  On a frame without rows pandas
\* probes the function with one row of NaN: the lambda returns a string, not a
\* Series, so the result is reduced to an empty Series.  (Older pandas
\* releases probed with an empty Series, the lambda raised KeyError and the
\* result was a copy of the empty frame.)
apply_legacy(frame) ==
    IF frame = <<>> THEN [kind |-> "frame", values |-> <<>>]
    ELSE [kind |-> "series", values |-> [i \in 1..Len(frame) |-> TitleLink(frame[i])]]

apply(frame) ==
    IF frame = <<>>
    THEN LET probe == TitleLink([title |-> NaN, url |-> NaN])
             \* the probe's result is the string "[nan](nan)", not a Series
             should_reduce == probe = <<"[", "nan", "](", "nan", ")">>
         IN  IF should_reduce THEN [kind |-> "series", values |-> <<>>]
             ELSE [kind |-> "frame", values |-> <<>>]
    ELSE [kind |-> "series", values |-> [i \in 1..Len(frame) |-> TitleLink(frame[i])]]

\* filtered_df[[...]].to_dict("records"), after the two column assignments
TableData(frame) ==
    [i \in 1..Len(frame) |->
        [publish_date |-> frame[i].publish_date,
         title_link |-> frame[i].title_link,
         counties |-> frame[i].counties,
         category |-> frame[i].category,
         media |-> frame[i].media]]


\* ------------------------------------------------------------ frame objects
\* the object the global name df is bound to, and an object a call creates
DfObject == [global |-> TRUE, rows |-> <<>>]

NewObject(rows) == [global |-> FALSE, rows |-> rows]

\* the rows of an object, d being the rows of the global frame
Rows(d, obj) == IF obj.global THEN d ELSE obj.rows

\* DataFrame.copy(): a new object with the rows of the copied one
copy(d, obj) == NewObject(Rows(d, obj))

\* a Series computed from a frame: one value per row, under the row's index
\* label
Series(frame, values) ==
    [i \in 1..Len(frame) |-> [index |-> frame[i].index, value |-> values[i]]]

\* the value a series holds for an index label; null when it has none
ValueAt(series, label, null) ==
    LET at == {k \in 1..Len(series) : series[k].index = label}
    IN  IF at = {} THEN null ELSE series[CHOOSE k \in at : TRUE].value

\* the rows of a frame after frame[column] = series: the column is replaced
\* or added, the values aligned on the index labels of the rows
SetColumn(rows, column, series, null) ==
    [i \in 1..Len(rows) |->
        [f \in DOMAIN rows[i] \cup {column} |->
            IF f = column THEN ValueAt(series, rows[i].index, null) ELSE rows[i][f]]]

\* the assignment writing the column into the global frame as well
setitem_df(d, obj, column, series, null) ==
    [df |-> SetColumn(d, column, series, null),
     obj |-> IF obj.global THEN obj
             ELSE [obj EXCEPT !.rows = SetColumn(obj.rows, column, series, null)]]

\* frame[column] = series writes into the object the name is bound to: the
\* global frame and the object after the assignment
setitem(d, obj, column, series, null) ==
    IF obj.global
    THEN [df |-> SetColumn(d, column, series, null), obj |-> obj]
    ELSE [df |-> d, obj |-> [obj EXCEPT !.rows = SetColumn(obj.rows, column, series, null)]]

\* ------------------------------------------------------------ the callback
\* The callback block by block: the filters (lines 129-139), the aggregates
\* (lines 141-178) and the table (lines 180-188).  d is the global frame as
\* the block finds it.

\* one of the three filters is applied
FilterActive(c) ==
    \/ TruthySelection(c.selected_categories)
    \/ TruthySelection(c.selected_counties)
    \/ TruthyDate(c.start_date) /\ TruthyDate(c.end_date)

\* lines 129-139: filtered_df is bound to a copy of df, then by each filter
\* that is applied to the new frame the boolean indexing returns
FilteredFrame(d, c) ==
    LET copied == copy(d, DfObject)
    IN  IF FilterActive(c) THEN NewObject(ApplyFilters(Rows(d, copied), c)) ELSE copied

\* line 181: filtered_df is bound to a copy of the frame sort_values returns
SortedCopy(d, filtered_df, ties) ==
    copy(d, NewObject(SortByDate(Rows(d, filtered_df), ties.dates)))

\* filtered_df["publish_date"].dt.strftime("%Y-%m-%d")
DateStrings(frame) ==
    Series(frame, [i \in 1..Len(frame) |-> strftime(frame[i].publish_date)])

\* line 182: the column publish_date of the object is assigned the strings
WriteDates(d, obj) == setitem(d, obj, "publish_date", DateStrings(Rows(d, obj)), NaT)

\* line 183: the column title_link of the object is assigned the result of
\* apply.  Assigning a frame with several columns to one column raises
\* ValueError: nothing is written.
WriteLinks(d, obj, links) ==
    IF links.kind = "series"
    THEN setitem(d, obj, "title_link", Series(Rows(d, obj), links.values), NaN)
    ELSE [df |-> d, obj |-> obj]

\* lines 183-188 on the object with its dates written: the global frame and
\* the object after them, whether line 183 raised, and table_data
LinkAndProject(d, obj, links) ==
    LET linked == WriteLinks(d, obj, links)
    IN  [df |-> linked.df,
         obj |-> linked.obj,
         error |-> links.kind # "series",
         table_data |-> IF links.kind = "series"
                        THEN TableData(Rows(linked.df, linked.obj)) ELSE <<>>]

\* lines 180-188 with the table built from the global frame
FormatTable_df(d, filtered_df, ties) ==
    LET dated == WriteDates(d, SortedCopy(d, DfObject, ties))
    IN  LinkAndProject(dated.df, dated.obj, apply(Rows(dated.df, dated.obj)))

\* lines 180-188 on the object filtered_df: the global frame after them, the
\* object filtered_df is bound to then, whether they raised, and table_data
FormatTable(d, filtered_df, ties) ==
    LET dated == WriteDates(d, SortedCopy(d, filtered_df, ties))
    IN  LinkAndProject(dated.df, dated.obj, apply(Rows(dated.df, dated.obj)))

\* lines 141-188 on the object filtered_df: the four aggregates read it, the
\* table block sorts a copy of it and writes into that copy.  The result:
\* the global frame after the block, whether it raised, the rows of the
\* filtered frame and the five values to return.
ComputeOutputs(d, filtered_df, ties) ==
    LET table == FormatTable(d, filtered_df, ties)
    IN  [df |-> table.df,
         error |-> table.error,
         filtered_df |-> Rows(d, filtered_df),
         media_text |-> MediaText(Rows(d, filtered_df)),
         pie |-> PieData(Rows(d, filtered_df), ties.counties),
         line |-> LineData(Rows(d, filtered_df)),
         bar |-> CategoryCounts(Rows(d, filtered_df)),
         table_data |-> table.table_data]

\* update_dashboard(selected_categories, selected_counties, start_date,
\* end_date) on the global frame d, from the first line to the last
update_dashboard(d, c, ties) == ComputeOutputs(d, FilteredFrame(d, c), ties)

\* the five values of line 190, as the page shows them for the input c
Bundle(c, r) ==
    [shown |-> TRUE, input |-> c,
     media_text |-> r.media_text, pie |-> r.pie,
     line |-> r.line, bar |-> r.bar,
     table_data |-> r.table_data]

\* the options of the two dropdowns: the categories and the counties of df
CategoryOptions(d) == {d[i].category : i \in 1..Len(d)}
CountyOptions(d) == {d[i].counties : i \in 1..Len(d)}

\* the values of a multi-select dropdown that are explored: at most one
\* option, or all options but at most one (every value when there are at
\* most two options)
Selections(options) ==
    {{}, options} \cup {{x} : x \in options} \cup {options \ {x} : x \in options}

\* the values the layout gives the components: no category, no county, and
\* the date range from the first to the last publication day
LayoutInput(d) ==
    LET dates == {d[i].publish_date : i \in 1..Len(d)} \ {NaT}
    IN  [selected_categories |-> {},
         selected_counties |-> {},
         start_date |-> IF dates = {} THEN NoDate ELSE DateOnly(MinOf(dates)),
         end_date |-> IF dates = {} THEN NoDate ELSE DateOnly(MaxOf(dates))]

\* the calls of update_dashboard that are followed: a call, and a call
\* requested while the first may still be running
PassIds == {"earlier", "later"}

\* ------------------------------------------------------------ state
VARIABLES
    csv,              \* the CSV file df was loaded from
    df,               \* the rows of the global data frame
    quicksort_ties,   \* the orders the build's quicksort has left arrays with
                      \* equal keys in, for the sort of the county counts
                      \* (int64) and for the sort of the timestamps
                      \* (datetime64): what later calls on the same arrays repeat
    inputs,           \* the values of the filter components of the page
    passes,           \* the calls of update_dashboard the server has received:
                      \* where each is in the function body, and its locals
    last,             \* the last call of update_dashboard that ended: input,
                      \* filtered frame, outcome
    display           \* the outputs the page shows

vars == <<csv, df, quicksort_ties, inputs, passes, last, display>>

InitFrom(files) ==
    /\ csv \in files
    /\ df = LoadData(csv)
    /\ quicksort_ties = [counties |-> {}, dates |-> {}]
    /\ inputs = LayoutInput(df)
    /\ passes = [p \in PassIds |-> [pc |-> "idle"]]
    /\ last = [called |-> FALSE]
    /\ display = [shown |-> FALSE]

Init == InitFrom(GeneralFiles)

\* One run of the callback on the component values c, from the request to the
\* response, no other call being served meanwhile.  Its five return values
\* are the outputs of one callback and reach the page together; when the
\* callback raises, no output is updated.  The two sorts of the call leave
\* the equal keys they meet in an order of the build's choosing (Resolve).
Callback(c) ==
    \E counties \in Resolve(quicksort_ties.counties, CountyKeys(ApplyFilters(df, c))) :
    \E dates \in Resolve(quicksort_ties.dates, DateKeys(ApplyFilters(df, c))) :
    LET ties == [counties |-> counties, dates |-> dates]
        r == update_dashboard(df, c, ties)
    IN  /\ inputs' = c
        /\ quicksort_ties' = ties
        /\ df' = r.df
        /\ last' = [called |-> TRUE, input |-> c, error |-> r.error,
                    filtered_df |-> r.filtered_df]
        /\ display' = IF r.error THEN display ELSE Bundle(c, r)
        /\ UNCHANGED <<csv, passes>>

\* the page is loaded: the callback runs on the layout's values
PageLoad == Callback(LayoutInput(df))

\* the user changes one filter component: the callback runs on the new value
\* of that component and the current values of the others
SelectCategories ==
    \E sel \in Selections(CategoryOptions(df)) :
        /\ sel # inputs.selected_categories
        /\ Callback([inputs EXCEPT !.selected_categories = sel])

SelectCounties ==
    \E sel \in Selections(CountyOptions(df)) :
        /\ sel # inputs.selected_counties
        /\ Callback([inputs EXCEPT !.selected_counties = sel])

PickStartDate ==
    \E d \in Days \cup {NoDate} :
        /\ d # inputs.start_date
        /\ Callback([inputs EXCEPT !.start_date = d])

PickEndDate ==
    \E d \in Days \cup {NoDate} :
        /\ d # inputs.end_date
        /\ Callback([inputs EXCEPT !.end_date = d])

Next ==
    \/ PageLoad
    \/ SelectCategories
    \/ SelectCounties
    \/ PickStartDate
    \/ PickEndDate

\* the dashboard, one call after the other
Spec == Init /\ [][Next]_vars

\* ------------------------------------------------------------ calls in flight
\* The server (line 194) serves every request in a thread of its own: a call
\* of update_dashboard can start while others are between two of their
\* blocks.  The position of a call is the line it executes next; its locals
\* are its own, the frame df and the sort are shared.  (subset keeps the
\* rows filtered_df had before line 181 rebinds the name.)

\* the component values a page load, or the change of one component, sends
Triggers ==
    {LayoutInput(df)}
    \cup {[inputs EXCEPT !.selected_categories = sel] :
             sel \in Selections(CategoryOptions(df)) \ {inputs.selected_categories}}
    \cup {[inputs EXCEPT !.selected_counties = sel] :
             sel \in Selections(CountyOptions(df)) \ {inputs.selected_counties}}
    \cup {[inputs EXCEPT !.start_date = d] : d \in (Days \cup {NoDate}) \ {inputs.start_date}}
    \cup {[inputs EXCEPT !.end_date = d] : d \in (Days \cup {NoDate}) \ {inputs.end_date}}

\* the locals of a call after an assignment to one of them, the call at line pc
Assign(locals, pc, name, value) ==
    [f \in DOMAIN locals \cup {name} |->
        IF f = name THEN value ELSE IF f = "pc" THEN pc ELSE locals[f]]

\* lines 117-128: a request arrives and update_dashboard is called on its
\* component values (the later call is requested after the earlier one)
Call(p, c) ==
    /\ passes[p].pc = "idle"
    /\ p = "later" => passes["earlier"].pc # "idle"
    /\ inputs' = c
    /\ passes' = [passes EXCEPT ![p] = [pc |-> "129", input |-> c]]
    /\ UNCHANGED <<csv, df, quicksort_ties, last, display>>

\* lines 129-139 of the call p
RunFilters(p) ==
    /\ passes[p].pc = "129"
    /\ passes' = [passes EXCEPT ![p] =
                     Assign(@, "141", "filtered_df", FilteredFrame(df, @.input))]
    /\ UNCHANGED <<csv, df, quicksort_ties, inputs, last, display>>

\* lines 141-143 of the call p
RunMediaCount(p) ==
    /\ passes[p].pc = "141"
    /\ passes' = [passes EXCEPT ![p] =
                     Assign(@, "145", "media_text", MediaText(Rows(df, @.filtered_df)))]
    /\ UNCHANGED <<csv, df, quicksort_ties, inputs, last, display>>

\* lines 145-155 of the call p
RunBar(p) ==
    /\ passes[p].pc = "145"
    /\ passes' = [passes EXCEPT ![p] =
                     Assign(@, "157", "bar", CategoryCounts(Rows(df, @.filtered_df)))]
    /\ UNCHANGED <<csv, df, quicksort_ties, inputs, last, display>>

\* lines 157-166 of the call p
RunPie(p) ==
    /\ passes[p].pc = "157"
    /\ \E counties \in Resolve(quicksort_ties.counties,
                               CountyKeys(Rows(df, passes[p].filtered_df))) :
          /\ quicksort_ties' = [quicksort_ties EXCEPT !.counties = counties]
          /\ passes' = [passes EXCEPT ![p] =
                           Assign(@, "168", "pie", PieData(Rows(df, @.filtered_df), counties))]
    /\ UNCHANGED <<csv, df, inputs, last, display>>

\* lines 168-178 of the call p
RunLine(p) ==
    /\ passes[p].pc = "168"
    /\ passes' = [passes EXCEPT ![p] =
                     Assign(@, "180", "line", LineData(Rows(df, @.filtered_df)))]
    /\ UNCHANGED <<csv, df, quicksort_ties, inputs, last, display>>

\* lines 180-188 of the call p (a call that raises in line 183 ends there)
RunTable(p) ==
    /\ passes[p].pc = "180"
    /\ \E dates \in Resolve(quicksort_ties.dates,
                            DateKeys(Rows(df, passes[p].filtered_df))) :
       LET ties == [quicksort_ties EXCEPT !.dates = dates]
           table == FormatTable(df, passes[p].filtered_df, ties)
       IN  /\ quicksort_ties' = ties
           /\ df' = table.df
           /\ passes' = [passes EXCEPT ![p] =
                            [pc |-> "190", input |-> @.input,
                             subset |-> Rows(df, @.filtered_df),
                             filtered_df |-> table.obj,
                             media_text |-> @.media_text, bar |-> @.bar,
                             pie |-> @.pie, line |-> @.line,
                             error |-> table.error,
                             table_data |-> table.table_data]]
    /\ UNCHANGED <<csv, inputs, last, display>>

\* line 190 of the call p: its five values are the response to its request
\* and reach the page together; a call that raised updates no output
Return(p) ==
    /\ passes[p].pc = "190"
    /\ last' = [called |-> TRUE, input |-> passes[p].input,
                error |-> passes[p].error,
                filtered_df |-> passes[p].subset]
    /\ display' = IF passes[p].error THEN display
                  ELSE Bundle(passes[p].input, passes[p])
    /\ passes' = [passes EXCEPT ![p] = [pc |-> "returned", input |-> @.input]]
    /\ UNCHANGED <<csv, df, quicksort_ties, inputs>>

Request == \E p \in PassIds : \E c \in Triggers : Call(p, c)

Filters == \E p \in PassIds : RunFilters(p)

MediaCount == \E p \in PassIds : RunMediaCount(p)

Bar == \E p \in PassIds : RunBar(p)

Pie == \E p \in PassIds : RunPie(p)

Line == \E p \in PassIds : RunLine(p)

Table == \E p \in PassIds : RunTable(p)

Response == \E p \in PassIds : Return(p)

NextPasses ==
    \/ Request
    \/ Filters
    \/ MediaCount
    \/ Bar
    \/ Pie
    \/ Line
    \/ Table
    \/ Response

\* The dashboard, two calls in flight together.  The page shows
\* the bundle of the call that returned last (a page that drops a response
\* shows a bundle of another of these calls).
SpecPasses == Init /\ [][NextPasses]_vars


\* ------------------------------------------------------------ claims
Indexes(frame) == {frame[i].index : i \in 1..Len(frame)}

BothDates(c) == c.start_date # NoDate /\ c.end_date # NoDate

RECURSIVE SumSeq(_)
SumSeq(s) == IF s = <<>> THEN 0 ELSE Head(s) + SumSeq(Tail(s))

RECURSIVE SumCounts(_)
SumCounts(S) ==
    IF S = {} THEN 0
    ELSE LET x == CHOOSE y \in S : TRUE IN x.count + SumCounts(S \ {x})

\* the row passes the category clause and the county clause
PassesSelections(r, c) ==
    /\ c.selected_categories = {} \/ r.category \in c.selected_categories
    /\ c.selected_counties = {} \/ r.counties \in c.selected_counties

\* the conjunction of the three clauses, the date bounds read as timestamps
Retained(r, c) ==
    /\ PassesSelections(r, c)
    /\ \/ ~BothDates(c)
       \/ /\ Ts(c.start_date, 0) <= r.publish_date
          /\ r.publish_date <= Ts(c.end_date, 0)

\* C1: the filtered subset of a call holds exactly the rows of df that pass
\* the category clause, the county clause and the date clause, in the order of
\* df; an empty selection and a date range with a bound missing restrict
\* nothing, and with all inputs empty the subset is df.
C1_FilterPredicate ==
    last.called =>
        /\ last.filtered_df = SelectSeq(df, LAMBDA r : Retained(r, last.input))
        /\ ( /\ last.input.selected_categories = {}
             /\ last.input.selected_counties = {}
             /\ ~BothDates(last.input) ) => last.filtered_df = df

C1_Witness ==
    /\ last.called
    /\ last.input.selected_categories # {}
    /\ last.input.selected_counties # {}
    /\ BothDates(last.input)
    /\ last.filtered_df # <<>>
    /\ Len(last.filtered_df) < Len(df)

\* C2: with both dates given, every row that passes the category and county
\* clauses and whose publication day lies in start_date..end_date is retained,
\* whatever its time of day.
C2_EndDayInclusive ==
    (last.called /\ BothDates(last.input)) =>
        \A i \in 1..Len(df) :
            ( /\ PassesSelections(df[i], last.input)
              /\ last.input.start_date <= DateOnly(df[i].publish_date)
              /\ DateOnly(df[i].publish_date) <= last.input.end_date )
            => df[i].index \in Indexes(last.filtered_df)

\* C3: the category counts of the bar chart sum to the size of the filtered
\* subset, which is the number of table rows and the sum of article_count
\* over the time series.
C3_ViewsAgree ==
    (display.shown /\ ~last.error) =>
        /\ SumCounts(display.bar) = Len(last.filtered_df)
        /\ Len(display.table_data) = Len(last.filtered_df)
        /\ SumSeq([k \in 1..Len(display.line) |-> display.line[k].article_count])
              = Len(last.filtered_df)

C3_Witness ==
    /\ display.shown
    /\ Len(display.table_data) = 2
    /\ Cardinality(display.bar) = 2
    /\ Len(display.line) = 2

\* the table row of a frame row
DisplayRow(r) ==
    [publish_date |-> DateOnly(r.publish_date),
     title_link |-> <<"[", r.title, "](", r.url, ")">>,
     counties |-> r.counties, category |-> r.category, media |-> r.media]

Min(a, b) == IF a < b THEN a ELSE b

\* the five outputs on the page, each held against the rows of df at the
\* positions S: the number of their medias; one bar per category with its
\* number of rows; up to TopN different counties, each with the number of its
\* medias; one time-series row per (day, county) with its number of rows;
\* and their table rows, each as often as it occurs
ViewsOf(S) ==
    /\ display.media_text =
          <<"Number of unique news medias: ", Cardinality({df[i].media : i \in S})>>
    /\ \A b \in display.bar :
          /\ b.count > 0
          /\ b.count = Cardinality({i \in S : df[i].category = b.category})
    /\ \A b1, b2 \in display.bar : b1.category = b2.category => b1 = b2
    /\ \A i \in S : \E b \in display.bar : b.category = df[i].category
    /\ Len(display.pie) = Min(TopN, Cardinality({df[i].counties : i \in S}))
    /\ \A k \in 1..Len(display.pie) :
          /\ display.pie[k].unique_medias > 0
          /\ display.pie[k].unique_medias =
                Cardinality({df[i].media : i \in {j \in S : df[j].counties
                                                              = display.pie[k].counties}})
          /\ \A m \in 1..Len(display.pie) :
                display.pie[m].counties = display.pie[k].counties => m = k
    /\ \A k \in 1..Len(display.line) :
          /\ display.line[k].article_count > 0
          /\ display.line[k].article_count =
                Cardinality({i \in S :
                    /\ DateOnly(df[i].publish_date) = display.line[k].publish_date_only
                    /\ df[i].counties = display.line[k].counties})
          /\ \A m \in 1..Len(display.line) :
                ( /\ display.line[m].publish_date_only = display.line[k].publish_date_only
                  /\ display.line[m].counties = display.line[k].counties ) => m = k
    /\ \A i \in S : \E k \in 1..Len(display.line) :
          /\ display.line[k].publish_date_only = DateOnly(df[i].publish_date)
          /\ display.line[k].counties = df[i].counties
    /\ Len(display.table_data) = Cardinality(S)
    /\ \A k \in 1..Len(display.table_data) :
          Cardinality({m \in 1..Len(display.table_data) :
                          display.table_data[m] = display.table_data[k]})
             = Cardinality({i \in S : DisplayRow(df[i]) = display.table_data[k]})

\* C4: whatever calls are in flight, the five outputs on the page are those
\* of one call that has returned: all five are views of the rows of df that
\* the input of that call retains.
C4_OneBundle ==
    display.shown =>
        /\ \E p \in PassIds : passes[p].pc = "returned" /\ passes[p].input = display.input
        /\ ViewsOf({i \in 1..Len(df) : Retained(df[i], display.input)})

\* the page shows the outputs of one call while another call, on another
\* input, is between its pie and its line chart, with another text and other
\* bars
C4_Witness ==
    /\ display.shown
    /\ \E p \in PassIds :
          /\ passes[p].pc = "168"
          /\ passes[p].input # display.input
          /\ passes[p].media_text # display.media_text
          /\ passes[p].bar # display.bar
          /\ passes[p].pie # display.pie

\* C6: an input with start_date > end_date produces no bundle: the page never
\* shows outputs computed for such an input.
C6_InvalidRangeRejected ==
    display.shown =>
        ~(BothDates(display.input) /\ display.input.start_date > display.input.end_date)

\* C7: a call whose filter matches no row completes without an error and
\* publishes the zero bundle: 0 unique medias, no category count, no county,
\* no time-series row, no table row.
C7_EmptyResult ==
    (last.called /\ last.filtered_df = <<>>) =>
        /\ ~last.error
        /\ display.shown
        /\ display.input = last.input
        /\ display.media_text = <<"Number of unique news medias: ", 0>>
        /\ display.bar = {}
        /\ display.pie = <<>>
        /\ display.line = <<>>
        /\ display.table_data = <<>>

C7_Witness ==
    /\ last.called
    /\ last.filtered_df = <<>>
    /\ df # <<>>
    /\ display.shown
    /\ display.input = last.input

\* the bundles a first call of update_dashboard on the input c returns in a
\* process that has just loaded the CSV file, one for every order its two
\* sorts may leave equal keys in
FirstCalls(c) ==
    LET loaded == LoadData(csv)
    IN  { Bundle(c, update_dashboard(loaded, c, [counties |-> counties, dates |-> dates])) :
            counties \in Resolve({}, CountyKeys(ApplyFilters(loaded, c))),
            dates \in Resolve({}, DateKeys(ApplyFilters(loaded, c))) }

\* C8: after any sequence of calls df is the frame loaded from the CSV file
\* (same rows, same order, same values, publish_date a timestamp), and the
\* bundle on the page is one a first call with the same input returns: the
\* one it returns where the sort leaves equal keys as it has left them so far.
C8_DatasetUnchanged ==
    /\ df = LoadData(csv)
    /\ (display.shown /\ ~last.error) =>
          /\ display \in FirstCalls(display.input)
          /\ display = Bundle(display.input,
                              update_dashboard(LoadData(csv), display.input, quicksort_ties))

\* a category and a county are selected (two calls at least have written
\* their date strings and links) and the table of the last call has rows
C8_Witness ==
    /\ display.shown
    /\ display.input = last.input
    /\ display.input.selected_categories # {}
    /\ display.input.selected_counties # {}
    /\ BothDates(display.input)
    /\ display.table_data # <<>>
    /\ Len(display.table_data) < Len(df)

\* the counties of a frame in the order of their first occurrence
RECURSIVE FirstSeen(_, _)
FirstSeen(frame, seen) ==
    IF frame = <<>> THEN <<>>
    ELSE IF Head(frame).counties \in seen THEN FirstSeen(Tail(frame), seen)
         ELSE <<Head(frame).counties>>
              \o FirstSeen(Tail(frame), seen \cup {Head(frame).counties})

UniqueMedias(frame, county) ==
    Cardinality({frame[i].media : i \in {j \in 1..Len(frame) : frame[j].counties = county}})

\* the reference ranking: the groups in first-seen order, sorted by value in
\* descending order by a stable sort, the first TopN of them
RefRanking(frame) ==
    LET keys == FirstSeen(frame, {})
        rows == [k \in 1..Len(keys) |->
                    [counties |-> keys[k], unique_medias |-> UniqueMedias(frame, keys[k])]]
        order == StableOrder([k \in 1..Len(rows) |-> 0 - rows[k].unique_medias])
        ranked == [k \in 1..Len(rows) |-> rows[order[k]]]
    IN  SubSeq(ranked, 1, IF Len(ranked) < TopN THEN Len(ranked) ELSE TopN)

\* C9: the county ranking is the reference ranking, tied counties in the
\* order of their first occurrence in the filtered subset.
C9_FirstSeenTieOrder ==
    (display.shown /\ ~last.error) => display.pie = RefRanking(last.filtered_df)

\* the table rows of one displayed date
RowsOfDay(rows, day) == SelectSeq(rows, LAMBDA row : row.publish_date = day)

\* C10: the table is the filtered subset by date descending, the rows of one
\* displayed date in their order in the filtered subset.
C10_StableByDisplayedDate ==
    (display.shown /\ ~last.error) =>
        /\ \A i, j \in 1..Len(display.table_data) :
              i < j => display.table_data[i].publish_date
                          >= display.table_data[j].publish_date
        /\ \A day \in {display.table_data[i].publish_date :
                          i \in 1..Len(display.table_data)} :
              RowsOfDay(display.table_data, day)
                 = RowsOfDay([i \in 1..Len(last.filtered_df) |->
                                 DisplayRow(last.filtered_df[i])], day)

=============================================================================
